---- MODULE Spec2Model ----
(***************************************************************************)
(* Model of Starbot_TUI/remove_duplicates.py: a script that reads a source *)
(* file as a list of lines, sorts a list of (name, approximate line)       *)
(* targets by descending line, and for each target searches a window of    *)
(* lines for "fn <name>(", counts braces from the matched line to find the *)
(* end of the block and splices the block out of the list of lines.        *)
(*                                                                         *)
(* A line is a sequence of one-character strings, a buffer a sequence of   *)
(* lines.  Python indices are 0-based; the operators At and PySlice do the *)
(* conversion to the 1-based sequences of TLA+.                            *)
(***************************************************************************)
EXTENDS Integers, Sequences, FiniteSets, TLC

VARIABLES file, lines, original_len, targets, functions_to_remove, idx,
          outcomes, last, pc

vars == <<file, lines, original_len, targets, functions_to_remove, idx,
          outcomes, last, pc>>

(***************************************************************************)
(* Bounds of the inputs.                                                   *)
(***************************************************************************)
MaxPad == 10

MaxTargets == 2

(***************************************************************************)
(* Program constants: range(-5, 10) of the search loop.                    *)
(***************************************************************************)
OffsetLo == -5

OffsetHi == 10

(***************************************************************************)
(* Python list helpers.                                                    *)
(***************************************************************************)
At(seq, k) == seq[k + 1]

Clip(k, n) == IF k < 0 THEN 0 ELSE IF k > n THEN n ELSE k

PySlice(seq, a, b) == SubSeq(seq, Clip(a, Len(seq)) + 1, Clip(b, Len(seq)))

(***************************************************************************)
(* Text of the input files.                                                *)
(***************************************************************************)
NameFoo == <<"f", "o", "o">>

NameKeep == <<"k", "e", "e", "p">>

Names == {NameFoo, NameKeep}

Fn == <<"f", "n", " ">>

Nl == <<"\n">>

LFooOpen == Fn \o NameFoo \o <<"(", ")", " ", "{">> \o Nl

LBar == <<" ", " ", "b", "a", "r", "(", ")", ";">> \o Nl

LClose == <<"}">> \o Nl

LKeepOne == Fn \o NameKeep \o <<"(", ")", "{", "}">> \o Nl

LKeepOpen == Fn \o NameKeep \o <<"(", ")", " ", "{">> \o Nl

LFooProto == Fn \o NameFoo \o <<"(", ")", ";">> \o Nl

LStrayKeep == <<"}", " ">> \o Fn \o NameKeep \o <<"(", ")", " ", "{">> \o Nl

LStrayFoo == <<"}", " ">> \o Fn \o NameFoo \o <<"(", ")", "{", "}">> \o Nl

Blocks ==
    { <<>>,
      <<LFooOpen, LBar, LClose>>,
      <<LKeepOne>>,
      <<LKeepOpen>>,
      <<LFooProto>>,
      <<LStrayKeep>>,
      <<LStrayFoo>>,
      <<LFooOpen, LKeepOpen, LClose, LClose>> }

Pad(n) == [k \in 1..n |-> LBar]

Pads == {0, MaxPad - 1, MaxPad}

Buffers == { b1 \o Pad(p) \o b2 : b1 \in Blocks, p \in Pads, b2 \in Blocks }

Hints == {1, 4, 7}

Targets == { <<n, h>> : n \in Names, h \in Hints }

TargetLists == UNION { [1..n -> Targets] : n \in 0..MaxTargets }

(***************************************************************************)
(* functions_to_remove.sort(key=lambda x: x[1], reverse=True): a stable    *)
(* sort by descending line number.                                         *)
(***************************************************************************)
RECURSIVE InsertDesc(_, _)
InsertDesc(sorted, x) ==
    IF sorted = <<>> THEN <<x>>
    ELSE IF sorted[Len(sorted)][2] >= x[2] THEN Append(sorted, x)
    ELSE Append(InsertDesc(SubSeq(sorted, 1, Len(sorted) - 1), x),
                sorted[Len(sorted)])

\* the sort without reverse=True
RECURSIVE SortAsc(_)
SortAsc(seq) ==
    IF seq = <<>> THEN <<>>
    ELSE LET rest == SortAsc(SubSeq(seq, 1, Len(seq) - 1))
             x == seq[Len(seq)]
             k == Cardinality({j \in 1..Len(rest) : rest[j][2] <= x[2]})
         IN SubSeq(rest, 1, k) \o <<x>> \o SubSeq(rest, k + 1, Len(rest))

RECURSIVE SortDesc(_)
SortDesc(seq) ==
    IF seq = <<>> THEN <<>>
    ELSE InsertDesc(SortDesc(SubSeq(seq, 1, Len(seq) - 1)), seq[Len(seq)])

(***************************************************************************)
(* remove_function.                                                        *)
(***************************************************************************)
\* the test placed before `brace_count -= 1`
CloseHitBeforeDecrement(started, brace_count) == started /\ brace_count = -1

\* `if started and brace_count == 0`, evaluated after the decrement
CloseHit(started, brace_count) == started /\ brace_count = 0

\* `for char in line`, entered with brace_count and started:
\* chars[<<c, brace_count, started>>] is what the loop ends in when it is at
\* character c (1-based); hit is the return from inside the loop
ScanLine(line, brace_count0, started0) ==
    LET chars[st \in Nat \X Int \X BOOLEAN] ==
            LET c == st[1]
                brace_count == st[2]
                started == st[3]
            IN IF c > Len(line)
               THEN [hit |-> FALSE, brace_count |-> brace_count, started |-> started]
               ELSE IF line[c] = "{"
               THEN chars[<<c + 1, brace_count + 1, TRUE>>]
               ELSE IF line[c] = "}"
               THEN IF CloseHit(started, brace_count - 1)
                    THEN [hit |-> TRUE, brace_count |-> brace_count - 1,
                          started |-> started]
                    ELSE chars[<<c + 1, brace_count - 1, started>>]
               ELSE chars[<<c + 1, brace_count, started>>]
    IN chars[<<1, brace_count0, started0>>]

\* `while i < len(lines)`, from i = start_line, brace_count = 0,
\* started = False: while_[<<i, brace_count, started>>] is what the loop
\* ends in when it is at line i (0-based)
Scan(ls, start_line) ==
    LET while_[st \in Nat \X Int \X BOOLEAN] ==
            LET i == st[1]
                r == ScanLine(At(ls, i), st[2], st[3])
            IN IF i >= Len(ls)
               THEN [found |-> FALSE, i |-> i, brace_count |-> st[2], started |-> st[3]]
               ELSE IF r.hit
               THEN [found |-> TRUE, i |-> i, brace_count |-> r.brace_count,
                     started |-> r.started]
               ELSE while_[<<i + 1, r.brace_count, r.started>>]
    IN while_[<<start_line, 0, FALSE>>]

\* lines[:start_line] + lines[i:]
SpliceKeepsEnd(ls, start_line, i) == PySlice(ls, 0, start_line) \o PySlice(ls, i, Len(ls))

\* lines[:start_line-1] + lines[i+1:]
SpliceDropsPrevious(ls, start_line, i) ==
    PySlice(ls, 0, start_line - 1) \o PySlice(ls, i + 1, Len(ls))

\* lines[:start_line] + lines[i+1:]
Splice(ls, start_line, i) == PySlice(ls, 0, start_line) \o PySlice(ls, i + 1, Len(ls))

\* `return lines[:start_line]` after the warning
ReturnTruncated(ls, start_line) == PySlice(ls, 0, start_line)

\* `return lines` after the warning
ReturnOnFailure(ls, start_line) == ls

\* the message with 0-based line numbers
ReportLineZeroBased(k) == k

\* the 1-based line numbers of the message: start_line+1, i+1
ReportLine(k) == k + 1

NoCall == [called |-> FALSE, found |-> FALSE, start_line |-> 0, i |-> 0,
           brace_count |-> 0, started |-> FALSE]

remove_function(ls, start_line, func_name) ==
    IF start_line >= Len(ls)
    THEN [lines |-> ls, printed |-> FALSE, out |-> [kind |-> "None"], locals |-> NoCall]
    ELSE LET s == Scan(ls, start_line)
             locals == [called |-> TRUE, found |-> s.found, start_line |-> start_line,
                        i |-> s.i, brace_count |-> s.brace_count, started |-> s.started]
         IN IF s.found
            THEN [lines |-> Splice(ls, start_line, s.i),
                  printed |-> TRUE,
                  out |-> [kind |-> "Removed", name |-> func_name,
                           startLine |-> ReportLine(start_line),
                           endLine |-> ReportLine(s.i),
                           lineCount |-> s.i - start_line + 1],
                  locals |-> locals]
            ELSE [lines |-> ReturnOnFailure(ls, start_line),
                  printed |-> TRUE,
                  out |-> [kind |-> "NotFoundBoundary", name |-> func_name],
                  locals |-> locals]

(***************************************************************************)
(* The search of the removal loop.                                         *)
(***************************************************************************)
\* f'fn {func_name}('
Pattern(func_name) == Fn \o func_name \o <<"(">>

\* pattern in line
Contains(line, pat) ==
    \E k \in 1..(Len(line) - Len(pat) + 1) : SubSeq(line, k, k + Len(pat) - 1) = pat

\* check_line = line_num + offset
CheckLineOneBased(line_num, offset) == line_num + offset

\* check_line = line_num - 1 + offset
CheckLine(line_num, offset) == line_num - 1 + offset

\* for offset in range(-5, 10): the first check_line that matches, or -1
RECURSIVE FindLine(_, _, _, _)
FindLine(ls, func_name, line_num, offset) ==
    IF offset >= OffsetHi THEN -1
    ELSE LET check_line == CheckLine(line_num, offset)
         IN IF check_line < 0 \/ check_line >= Len(ls)
            THEN FindLine(ls, func_name, line_num, offset + 1)
            ELSE IF Contains(At(ls, check_line), Pattern(func_name))
            THEN check_line
            ELSE FindLine(ls, func_name, line_num, offset + 1)

(***************************************************************************)
(* The script.                                                             *)
(***************************************************************************)
Init ==
    /\ file \in Buffers
    /\ lines = file
    /\ original_len = Len(file)
    /\ targets \in TargetLists
    /\ functions_to_remove = targets
    /\ idx = 1
    /\ outcomes = <<>>
    /\ last = NoCall
    /\ pc = "sort"

Sort ==
    /\ pc = "sort"
    /\ functions_to_remove' = SortDesc(functions_to_remove)
    /\ idx' = 1
    /\ pc' = "loop"
    /\ UNCHANGED <<file, lines, original_len, targets, outcomes, last>>

\* the loop with a `break` after a target that was not removed
ProcessTargetAbortsOnFailure ==
    /\ pc = "loop"
    /\ idx <= Len(functions_to_remove)
    /\ LET func_name == functions_to_remove[idx][1]
           line_num == functions_to_remove[idx][2]
           check_line == FindLine(lines, func_name, line_num, OffsetLo)
       IN IF check_line = -1
          THEN /\ outcomes' = Append(outcomes,
                      [kind |-> "NotFoundLocate", name |-> func_name])
               /\ last' = NoCall
               /\ lines' = lines
               /\ idx' = Len(functions_to_remove) + 1
          ELSE LET r == remove_function(lines, check_line, func_name)
               IN /\ lines' = r.lines
                  /\ outcomes' = IF r.printed THEN Append(outcomes, r.out) ELSE outcomes
                  /\ last' = r.locals
                  /\ idx' = IF r.locals.found THEN idx + 1
                            ELSE Len(functions_to_remove) + 1
    /\ UNCHANGED <<file, original_len, targets, functions_to_remove, pc>>

\* one iteration of `for func_name, line_num in functions_to_remove`
ProcessTarget ==
    /\ pc = "loop"
    /\ idx <= Len(functions_to_remove)
    /\ LET func_name == functions_to_remove[idx][1]
           line_num == functions_to_remove[idx][2]
           check_line == FindLine(lines, func_name, line_num, OffsetLo)
       IN IF check_line = -1
          THEN /\ outcomes' = Append(outcomes,
                      [kind |-> "NotFoundLocate", name |-> func_name])
               /\ last' = NoCall
               /\ lines' = lines
          ELSE LET r == remove_function(lines, check_line, func_name)
               IN /\ lines' = r.lines
                  /\ outcomes' = IF r.printed THEN Append(outcomes, r.out) ELSE outcomes
                  /\ last' = r.locals
    /\ idx' = idx + 1
    /\ UNCHANGED <<file, original_len, targets, functions_to_remove, pc>>

\* the loop is over: write the lines back
WriteBack ==
    /\ pc = "loop"
    /\ idx > Len(functions_to_remove)
    /\ file' = lines
    /\ pc' = "done"
    /\ UNCHANGED <<lines, original_len, targets, functions_to_remove, idx, outcomes, last>>

Next == Sort \/ ProcessTarget \/ WriteBack

Spec == Init /\ [][Next]_vars

\* the runs on the buffers without padding, with every hint at line 1
FairInit ==
    /\ Init
    /\ file \in {b1 \o b2 : b1 \in Blocks, b2 \in Blocks}
    /\ \A k \in 1..Len(targets) : targets[k][2] = 1

\* the script runs to its end: no step of it blocks
FairSpec == FairInit /\ [][Next]_vars /\ WF_vars(Next)

(***************************************************************************)
(* Vocabulary of the properties.                                           *)
(***************************************************************************)
Min(S) == CHOOSE x \in S : \A y \in S : x <= y

\* a step of the removal loop
ProcessStep == pc = "loop" /\ idx' = idx + 1

LastOutcome(outs) == outs[Len(outs)]

Failures == {"NotFoundLocate", "NotFoundBoundary"}

\* the indices [approxLine-1-5, approxLine-1+10) that exist in a buffer of n lines
Window(approxLine, n) ==
    {k \in 0..(n - 1) : approxLine - 1 - 5 <= k /\ k < approxLine - 1 + 10}

\* the indices of the window whose line contains the declaration pattern
MatchSet(ls, name, approxLine) ==
    {k \in Window(approxLine, Len(ls)) : Contains(At(ls, k), Pattern(name))}

\* the brace characters at or after line `start`, as <<line index, column>>
BracePositions(ls, start) ==
    UNION { { <<l, c>> : c \in {d \in 1..Len(At(ls, l)) : At(ls, l)[d] \in {"{", "}"}} } :
            l \in start..(Len(ls) - 1) }

CharAt(ls, p) == At(ls, p[1])[p[2]]

UpTo(p, q) == p[1] < q[1] \/ (p[1] = q[1] /\ p[2] <= q[2])

\* the depth after the character at q, counted from line `start`
DepthAt(ls, start, q) ==
    Cardinality({p \in BracePositions(ls, start) : UpTo(p, q) /\ CharAt(ls, p) = "{"})
    - Cardinality({p \in BracePositions(ls, start) : UpTo(p, q) /\ CharAt(ls, p) = "}"})

\* q is a '}' that brings the depth to 0 after a '{'
Balances(ls, start, q) ==
    /\ CharAt(ls, q) = "}"
    /\ DepthAt(ls, start, q) = 0
    /\ \E p \in BracePositions(ls, start) : UpTo(p, q) /\ CharAt(ls, p) = "{"

BalancedLines(ls, start) ==
    {q[1] : q \in {p \in BracePositions(ls, start) : Balances(ls, start, p)}}

\* the first '{' of the line and the '}' that closes it are both on the line
SelfContained(line) ==
    \E p \in 1..Len(line) : \E q \in (p + 1)..Len(line) :
        /\ line[p] = "{"
        /\ \A r \in 1..(p - 1) : line[r] # "{"
        /\ line[q] = "}"
        /\ Cardinality({r \in p..q : line[r] = "{"})
             = Cardinality({r \in p..q : line[r] = "}"})

RECURSIVE SumRemoved(_)
SumRemoved(outs) ==
    IF outs = <<>> THEN 0
    ELSE SumRemoved(SubSeq(outs, 1, Len(outs) - 1))
         + (IF LastOutcome(outs).kind = "Removed" THEN LastOutcome(outs).lineCount ELSE 0)

Occurrences(seq, x) == Cardinality({k \in 1..Len(seq) : seq[k] = x})

ScenarioBuffer == <<LFooOpen, LBar, LClose, LKeepOne>>

(***************************************************************************)
(* C1                                                                      *)
(***************************************************************************)
\* C1 as stated: whenever a target is removed, every target not yet
\* processed sees, at every index of its search window, the line it saw
\* before the removal.
C1_WindowsUntouched ==
    [][(ProcessStep /\ Len(outcomes') > Len(outcomes)
                    /\ LastOutcome(outcomes').kind = "Removed")
        => \A j \in (idx + 1)..Len(functions_to_remove) :
             \A k \in Window(functions_to_remove[j][2], Len(lines)) :
                k < Len(lines') /\ At(lines', k) = At(lines, k)]_vars

\* C1 amended: a removal that starts at index i leaves every line below i
\* as it was, so a target not yet processed whose window ends at or below i
\* sees the same lines in its window and is located at the same index.
C1_PrefixUntouched ==
    [][(ProcessStep /\ Len(outcomes') > Len(outcomes)
                    /\ LastOutcome(outcomes').kind = "Removed")
        => LET i == LastOutcome(outcomes').startLine - 1
           IN /\ \A k \in 0..(i - 1) : k < Len(lines') /\ At(lines', k) = At(lines, k)
              /\ \A j \in (idx + 1)..Len(functions_to_remove) :
                    LET t == functions_to_remove[j]
                    IN t[2] - 1 + 10 <= i
                       => /\ \A k \in Window(t[2], Len(lines)) :
                                k < Len(lines') /\ At(lines', k) = At(lines, k)
                          /\ MatchSet(lines', t[1], t[2]) = MatchSet(lines, t[1], t[2])]_vars

\* a removal has started above the whole window of a target that is still
\* to be processed and whose declaration is in its window
C1_Witness ==
    /\ pc = "loop" /\ idx = 2 /\ Len(functions_to_remove) = 2
    /\ Len(outcomes) = 1 /\ outcomes[1].kind = "Removed"
    /\ functions_to_remove[2][2] - 1 + 10 <= outcomes[1].startLine - 1
    /\ MatchSet(lines, functions_to_remove[2][1], functions_to_remove[2][2]) # {}

(***************************************************************************)
(* C2                                                                      *)
(***************************************************************************)
\* C2 as stated: each processed target has an approxLine strictly smaller
\* than the one processed before it.
C2_StrictlyDescending ==
    pc \in {"loop", "done"}
        => \A k \in 2..(idx - 1) :
              functions_to_remove[k][2] < functions_to_remove[k - 1][2]

\* C2 amended: for every input list, in any order, the targets processed
\* are the targets supplied, and each processed target has an approxLine
\* smaller than or equal to the one processed before it (strictly smaller
\* when the two hints differ, which they do when all hints are distinct).
C2_Descending ==
    pc \in {"loop", "done"}
        => /\ \A t \in Targets :
                Occurrences(functions_to_remove, t) = Occurrences(targets, t)
           /\ \A k \in 2..(idx - 1) :
                functions_to_remove[k][2] <= functions_to_remove[k - 1][2]
           /\ (\A a, b \in 1..Len(targets) : a # b => targets[a][2] # targets[b][2])
                => \A k \in 2..(idx - 1) :
                      functions_to_remove[k][2] < functions_to_remove[k - 1][2]

\* two targets supplied in ascending order have both been processed
C2_Witness ==
    /\ pc = "done" /\ idx = 3 /\ Len(targets) = 2
    /\ targets[1][2] < targets[2][2]
    /\ functions_to_remove[1] = targets[2]

(***************************************************************************)
(* C3                                                                      *)
(***************************************************************************)
\* C3: the length of the buffer is the original length minus the sum of
\* lineCount over the Removed outcomes so far, and so is the length of the
\* file written at the end; lineCount is endLine - startLine + 1.
C3_CountInvariant ==
    /\ Len(lines) = original_len - SumRemoved(outcomes)
    /\ pc = "done" => Len(file) = original_len - SumRemoved(outcomes)
    /\ \A k \in 1..Len(outcomes) :
          outcomes[k].kind = "Removed"
             => outcomes[k].lineCount = outcomes[k].endLine - outcomes[k].startLine + 1

\* a run is over in which two blocks, one of them of several lines, were removed
C3_Witness ==
    /\ pc = "done" /\ Len(outcomes) = 2
    /\ outcomes[1].kind = "Removed" /\ outcomes[2].kind = "Removed"
    /\ SumRemoved(outcomes) >= 4

(***************************************************************************)
(* C4                                                                      *)
(***************************************************************************)
\* C4: a target whose outcome is NotFoundLocate or NotFoundBoundary leaves
\* the buffer as it was, line for line; a target either removes one whole
\* contiguous range of lines or changes nothing.
C4_NoMutationOnFailure ==
    [][ProcessStep
        => /\ (Len(outcomes') > Len(outcomes) /\ LastOutcome(outcomes').kind \in Failures)
                => lines' = lines
           /\ \/ lines' = lines
              \/ \E i \in 0..(Len(lines) - 1) : \E j \in i..(Len(lines) - 1) :
                    lines' = SubSeq(lines, 1, i) \o SubSeq(lines, j + 2, Len(lines))]_vars

\* both kinds of failure have happened on a buffer that is not empty, the
\* boundary failure on a line that is not the first
C4_Witness ==
    /\ Len(outcomes) = 2
    /\ {outcomes[1].kind, outcomes[2].kind} = Failures
    /\ last.called /\ ~last.found /\ last.start_line > 0

(***************************************************************************)
(* C5                                                                      *)
(***************************************************************************)
\* C5: every run terminates; when it has, there is exactly one outcome per
\* supplied target, in the order the targets were processed, so that a
\* NotFoundLocate or NotFoundBoundary on one target has not kept the
\* targets after it from being processed.
C5_TerminatesOneOutcomeEach ==
    /\ <>(pc = "done")
    /\ [](pc = "done"
            => /\ Len(outcomes) = Len(targets)
               /\ \A k \in 1..Len(outcomes) :
                     /\ outcomes[k].kind \in Failures \cup {"Removed"}
                     /\ outcomes[k].name = functions_to_remove[k][1])

\* a run is over in which the first target failed and the second was removed
C5_Witness ==
    /\ pc = "done" /\ Len(outcomes) = 2
    /\ outcomes[1].kind \in Failures
    /\ outcomes[2].kind = "Removed"

(***************************************************************************)
(* C6                                                                      *)
(***************************************************************************)
\* C6 as stated, in its last clause: when the opening brace of the
\* declaration line and the brace that closes it are both on that line, a
\* successful scan ends on that line.
C6_SelfContainedLineEndsScan ==
    [][(ProcessStep /\ last'.called /\ last'.found
            /\ SelfContained(At(lines, last'.start_line)))
        => last'.i = last'.start_line]_vars

\* C6 amended: a successful scan from startLine ends on the first line on
\* which a '}' brings the depth to 0 after at least one '{'; startLine <=
\* endLine < buffer length; the outcome reports that range; and when such a
\* '}' is on the declaration line itself (its opening brace is on that line
\* and no '}' precedes it there), endLine = startLine and lineCount = 1.
C6_ScanResult ==
    [][(ProcessStep /\ last'.called /\ last'.found)
        => LET s == last'.start_line
               e == last'.i
               out == LastOutcome(outcomes')
           IN /\ BalancedLines(lines, s) # {}
              /\ e = Min(BalancedLines(lines, s))
              /\ s <= e /\ e < Len(lines)
              /\ out.kind = "Removed"
              /\ out.startLine = s + 1 /\ out.endLine = e + 1
              /\ out.lineCount = e - s + 1
              /\ s \in BalancedLines(lines, s) => (e = s /\ out.lineCount = 1)]_vars

\* two scans have succeeded, one on its declaration line and one on a later line
C6_Witness ==
    /\ Len(outcomes) = 2
    /\ outcomes[1].kind = "Removed" /\ outcomes[2].kind = "Removed"
    /\ \E k \in 1..2 : outcomes[k].lineCount = 1
    /\ \E k \in 1..2 : outcomes[k].lineCount > 1

(***************************************************************************)
(* C7                                                                      *)
(***************************************************************************)
\* C7 as stated: a scan that fails has, at the end of the buffer, either
\* opened = false, or opened = true and depth # 0.
C7_NeverFailsBalanced ==
    (last.called /\ ~last.found) => (~last.started \/ last.brace_count # 0)

\* C7 amended: a scan that fails has read the buffer to its end and has
\* either opened = false, or opened = true and depth # 0, or opened = true
\* and depth = 0 where the last brace read is a '{' (the depth came back to
\* 0 by an opening brace, a '}' having preceded the first '{').
C7_FailureState ==
    (last.called /\ ~last.found)
        => /\ last.i = Len(lines)
           /\ BalancedLines(lines, last.start_line) = {}
           /\ \/ ~last.started
              \/ last.brace_count # 0
              \/ /\ last.started /\ last.brace_count = 0
                 /\ \E q \in BracePositions(lines, last.start_line) :
                       /\ CharAt(lines, q) = "{"
                       /\ \A p \in BracePositions(lines, last.start_line) : UpTo(p, q)
                 /\ \E q \in BracePositions(lines, last.start_line) :
                       /\ CharAt(lines, q) = "}"
                       /\ \A p \in BracePositions(lines, last.start_line) :
                             CharAt(lines, p) = "{" => UpTo(q, p)

\* a scan has failed with opened = true and depth = 0
C7_Witness ==
    last.called /\ ~last.found /\ last.started /\ last.brace_count = 0

(***************************************************************************)
(* C8                                                                      *)
(***************************************************************************)
\* C8 as stated: on the four-line buffer, the target {keep, 4} yields
\* Removed{startLine: 1, endLine: 1, lineCount: 1} and the first three
\* lines remain.
C8_ScenarioBAsStated ==
    (pc = "loop" /\ idx = 2 /\ file = ScenarioBuffer /\ targets = <<<<NameKeep, 4>>>>)
        => /\ outcomes = <<[kind |-> "Removed", name |-> NameKeep,
                            startLine |-> 1, endLine |-> 1, lineCount |-> 1]>>
           /\ lines = <<LFooOpen, LBar, LClose>>

\* C8 amended: on the four-line buffer, the target {keep, 4} yields
\* Removed{startLine: 4, endLine: 4, lineCount: 1} and the first three
\* lines remain, in the buffer and in the file written.
C8_ScenarioB ==
    /\ (pc = "loop" /\ idx = 2 /\ file = ScenarioBuffer /\ targets = <<<<NameKeep, 4>>>>)
        => /\ outcomes = <<[kind |-> "Removed", name |-> NameKeep,
                            startLine |-> 4, endLine |-> 4, lineCount |-> 1]>>
           /\ lines = <<LFooOpen, LBar, LClose>>
    /\ (pc = "done" /\ original_len = 4 /\ targets = <<<<NameKeep, 4>>>>
            /\ outcomes = <<[kind |-> "Removed", name |-> NameKeep,
                             startLine |-> 4, endLine |-> 4, lineCount |-> 1]>>)
        => file = lines

\* the target of scenario B has been processed on the buffer of scenario B
C8_Witness ==
    /\ pc = "loop" /\ idx = 2 /\ file = ScenarioBuffer /\ targets = <<<<NameKeep, 4>>>>
    /\ Len(outcomes) = 1

C10_RoundTrip ==
    [][(ProcessStep /\ Len(outcomes') > Len(outcomes)
                    /\ LastOutcome(outcomes').kind = "Removed")
        => LET i == LastOutcome(outcomes').startLine - 1
               j == LastOutcome(outcomes').endLine - 1
               removed == [k \in 1..(j - i + 1) |-> At(lines, i + k - 1)]
           IN /\ 0 <= i /\ i <= j /\ j < Len(lines)
              /\ Len(lines') = Len(lines) - (j - i + 1)
              /\ \A k \in 0..(i - 1) : At(lines', k) = At(lines, k)
              /\ \A k \in (j + 1)..(Len(lines) - 1) :
                    At(lines', k - (j - i + 1)) = At(lines, k)
              /\ SubSeq(lines', 1, i) \o removed \o SubSeq(lines', i + 1, Len(lines'))
                   = lines]_vars

\* a block of several lines has been removed from the middle of a buffer
C10_Witness ==
    /\ Len(outcomes) >= 1
    /\ LastOutcome(outcomes).kind = "Removed"
    /\ LastOutcome(outcomes).startLine > 1
    /\ LastOutcome(outcomes).lineCount > 1
    /\ Len(lines) >= LastOutcome(outcomes).startLine

====
